---- MODULE Spec2Model ----
(***************************************************************************)
(* Model of the document chunking and indexing pipeline of                 *)
(* obsidian-intelligence-rag:                                              *)
(*   - IndexerService  (services/indexer, src/unnamed/part_013)            *)
(*   - ChunkingService (services/chunker, src/unnamed/part_011)            *)
(*   - ChromaService   (src/server/services/database.ts)                   *)
(* Three specifications share the module: Spec (the indexing queue and     *)
(* its drain loop), ChunkSpec (chunkDocument on bounded texts) and         *)
(* InitSpec (concurrent ChromaService.initialize calls).                   *)
(***************************************************************************)
EXTENDS Integers, Sequences, FiniteSets, TLC

(***************************************************************************)
(* Bounds of the model                                                     *)
(***************************************************************************)
\* number of documents ever handed to queueDocument (uuid values issued)
MaxDocs == 3
\* stand-in for the default maxQueueSize of 100 (part_013:54)
DefaultMaxQueueSize == 2
\* stand-in for the lower clamp 10 of setMaxQueueSize (part_013:283)
MinMaxQueueSize == 2
\* number of documents queued in the runs checked for liveness
MaxLiveDocs == 2
\* number of pieces a text given to chunkDocument is made of
MaxPieces == 4
\* largest options.chunkSize tried
MaxChunkSize == 2
\* largest options.chunkOverlap tried when the overlap is not below chunkSize
MaxChunkOverlap == 3
\* windows one splitByCharacters call may push before the model stops following
\* it; a scan that advances pushes at most one window per character
MaxWindows == 3 * MaxPieces + 1
\* number of callers of ChromaService.initialize
MaxCallers == 3
\* number of documents whose store write is followed batch by batch
MaxBatchDocs == 2

(***************************************************************************)
(* Program constants                                                       *)
(***************************************************************************)
DefaultConcurrentProcessing == 1
MinConcurrentProcessing == 1
MaxConcurrentProcessing == 10
WriteBatchSize == 50
\* generateEmbeddings: const batchSize = 10
EmbedBatchSize == 10
DefaultChunkSize == 1000
DefaultChunkOverlap == 200
\* splitByCharacters: how far back from the window end a breakpoint may lie
BreakpointLookback == 100
\* the similarity score 1 of an exact match, in hundredths
ScoreScale == 100
\* splitByStructure: the most "#" a markdown header marker has
MaxHeaderHashes == 6

DocIds == 1..MaxDocs
\* the document the k-th queueDocument call is given: titles and contents
\* differ from call to call
Upload(k) == [title |-> <<"title", k>>, content |-> <<"content", k>>]
\* arguments tried for setConcurrentProcessing and setMaxQueueSize
LimitInputs == {0, 2, 11}
SizeInputs == {1, MinMaxQueueSize + 1}

Undefined == "<undefined>"
\* startTime / endTime: not set, or the value Date.now() returned
NoTime == "<undefined>"
Timestamp == "Date.now()"
\* processDocument's fixed text "This is a placeholder for the document content. ..."
PlaceholderContent == <<"placeholder", 0>>
NoContent == <<"none", 0>>
QueueFullError == "Indexing queue is full. Please try again later."
AnalyzeError == "Failed to analyze document"
InitializeError == "Failed to initialize ChromaDB"
AddChunksError == "Failed to add document chunks to ChromaDB"

VARIABLES
  \* IndexerService
  queue,                 \* this.queue: sequence of QueueItem
  processing,            \* this.processing: the drain flag
  concurrentProcessing,  \* this.concurrentProcessing
  maxQueueSize,          \* this.maxQueueSize
  loops,                 \* activations of processQueue suspended at await Promise.all,
                         \* each the set of document ids of the batch it awaits
  runs,                  \* activations of processDocument: stage and local chunks
  issued,                \* number of identifiers uuidv4() has produced
  supplied,              \* documentId -> content handed to queueDocument
  lastCall,              \* the latest call that returned a value or threw: its name,
                         \* the error it threw and the value it returned
  \* ChromaService as seen by the pipeline
  collection,            \* this.collection: "null" or "ready"
  ctorInit,              \* the initialize() call issued by the IndexerService constructor
  store                  \* records held by the backing collection

VARIABLES
  \* ChunkingService.chunkDocument
  text,                  \* document.content, a sequence of characters
  chunkSize,             \* options.chunkSize
  chunkOverlap,          \* options.chunkOverlap
  respectHeaders,        \* options.respectHeaders
  respectParagraphs,     \* options.respectParagraphs
  cpc,                   \* where chunkDocument stands: "idle", "start", "refine", "scan", "done"
  segments,              \* refineLargeChunks: the chunks not yet looked at
  refinedChunks,         \* refineLargeChunks: refinedChunks
  scanText,              \* splitByCharacters: text
  scanCaller,            \* splitByCharacters: called by "structure" or by "refine"
  currentPosition,       \* splitByCharacters: currentPosition
  scanChunks,            \* splitByCharacters: chunks
  windows,               \* splitByCharacters: the <<start, end>> of every window pushed
  documentChunks         \* chunkDocument: the value returned

chunkVars == <<text, chunkSize, chunkOverlap, respectHeaders, respectParagraphs, cpc,
               segments, refinedChunks, scanText, scanCaller, currentPosition, scanChunks,
               windows, documentChunks>>

VARIABLES
  \* ChromaService.initialize and the Chroma backend
  isInMemory,            \* this.isInMemory
  backendHas,            \* the backend holds the collection intelligence_documents
  created,               \* createCollection requests the backend has carried out
  ipc,                   \* per caller: where its initialize call stands
  reply,                 \* per caller: the backend's answer it has not yet consumed
  call                   \* the client's latest deleteDocument, getAllDocumentIds or
                         \* searchSimilarChunks call: arguments, stage and outcome

chromaVars == <<isInMemory, backendHas, created, ipc, reply, call>>

coordVars == <<queue, processing, concurrentProcessing, maxQueueSize, loops, runs,
               issued, supplied, lastCall, collection, ctorInit, store>>
vars == <<coordVars, chunkVars, chromaVars>>

(***************************************************************************)
(* Helpers                                                                 *)
(***************************************************************************)
Min(a, b) == IF a < b THEN a ELSE b
Range(s) == { s[i] : i \in DOMAIN s }
IdsOf(q) == { q[i].documentId : i \in DOMAIN q }
ItemOf(q, id) == q[CHOOSE i \in DOMAIN q : q[i].documentId = id]
StatusOf(q, id) ==
  IF \E i \in DOMAIN q : q[i].documentId = id THEN ItemOf(q, id).status ELSE "absent"
NumWithStatus(q, s) == Cardinality({ i \in DOMAIN q : q[i].status = s })

\* an optional property of another type than string: not set, or set to v
Absent == <<>>
Present(v) == <<v>>

IdleRun == [stage |-> "idle", chunks |-> <<>>, next |-> 0, embeddings |-> <<>>, requests |-> {}]

(***************************************************************************)
(* IndexerService                                                          *)
(***************************************************************************)
\* a capacity check that admits one item too many
QueueFullOffByOne(q, max) == Len(q) > max

\* queueDocument, the capacity check
QueueFull(q, max) == Len(q) >= max

\* queueDocument, the new QueueItem
NewQueueItem(documentId, document) ==
  [documentId |-> documentId, title |-> document.title, status |-> "pending",
   progress |-> 0, error |-> Undefined, startTime |-> NoTime, endTime |-> NoTime]

\* a selection that forgets the slice: every pending item
PendingDocumentsNoLimit(q, limit) ==
  LET p == SelectSeq(q, LAMBDA it : it.status = "pending")
  IN  [i \in 1..Len(p) |-> p[i].documentId]

\* a selection whose slice is one short: slice(0, limit - 1)
PendingDocumentsOneShort(q, limit) ==
  LET p == SelectSeq(q, LAMBDA it : it.status = "pending")
  IN  [i \in 1..Min(limit - 1, Len(p)) |-> p[i].documentId]

\* a selection that takes the pending items from the end of the queue
PendingDocumentsNewestFirst(q, limit) ==
  LET p == SelectSeq(q, LAMBDA it : it.status = "pending")
  IN  [i \in 1..Min(limit, Len(p)) |-> p[Len(p) + 1 - i].documentId]

\* processQueue: this.queue.filter(pending).slice(0, this.concurrentProcessing)
PendingDocuments(q, limit) ==
  LET p == SelectSeq(q, LAMBDA it : it.status = "pending")
  IN  [i \in 1..Min(limit, Len(p)) |-> p[i].documentId]

\* a drain loop that does not raise the flag
FlagNotRaised == FALSE

\* processQueue: this.processing = true
FlagOnEntry == TRUE

\* processDocument up to its first await: status, startTime, progress 10 then 30
ProcessDocumentStart(item, t) ==
  [item EXCEPT !.status = "processing", !.startTime = t, !.progress = 30]

\* processDocument: the document handed to the chunker
PipelineDocument(item) ==
  [id |-> item.documentId, title |-> item.title, content |-> PlaceholderContent]

\* generateChunkId: md5 of "<documentId>-<chunkIndex>", taken as collision free
GenerateChunkId(documentId, chunkIndex) == <<documentId, chunkIndex>>

\* chunkDocument on a document whose content is not longer than chunkSize
\* (the default 1000): splitByStructure returns the text as its only chunk
ChunkShortDocument(document) ==
  << [id |-> GenerateChunkId(document.id, 0), documentId |-> document.id,
      content |-> document.content, title |-> document.title,
      chunkIndex |-> 0, totalChunks |-> 1, summary |-> Undefined,
      entities |-> Absent, category |-> Absent, confidenceScore |-> Absent] >>

\* a catch block that puts the item back for another attempt
MarkFailedRetry(item, msg, t) ==
  [item EXCEPT !.status = "pending", !.error = msg, !.endTime = t]

\* processDocument, the catch block applied to one queue item
MarkFailed(item, msg, t) ==
  [item EXCEPT !.status = "failed", !.error = msg, !.endTime = t]

\* a failure that takes the whole batch down: every processing item fails
FailBatch(q, id, msg, t) ==
  [i \in DOMAIN q |-> IF q[i].status = "processing" THEN MarkFailed(q[i], msg, t) ELSE q[i]]

\* processDocument, the catch block: the queue after the item of id failed
FailDocument(q, id, msg, t) ==
  [i \in DOMAIN q |-> IF q[i].documentId = id THEN MarkFailed(q[i], msg, t) ELSE q[i]]

\* processDocument, the success path after addDocumentChunks returned
MarkCompleted(item, t) ==
  [item EXCEPT !.status = "completed", !.progress = 100, !.endTime = t]

SetProgress(q, id, p) ==
  [i \in DOMAIN q |-> IF q[i].documentId = id THEN [q[i] EXCEPT !.progress = p] ELSE q[i]]

\* processQueue from the while condition to the next await Promise.all or
\* to the finally block; entering says whether this is the call's entry
Drain(q, lps, entering) ==
  LET sel == IF Len(q) > 0 THEN PendingDocuments(q, concurrentProcessing) ELSE <<>>
      ids == Range(sel)
  IN  IF sel # <<>>
      THEN /\ queue' = [i \in DOMAIN q |->
                          IF q[i].documentId \in ids
                          THEN ProcessDocumentStart(q[i], Timestamp) ELSE q[i]]
           /\ runs' = [id \in DocIds |->
                          IF id \in ids
                          THEN [stage |-> "chunk",
                                chunks |-> ChunkShortDocument(PipelineDocument(ItemOf(q, id))),
                                next |-> 0, embeddings |-> <<>>, requests |-> {}]
                          ELSE runs[id]]
           /\ loops' = lps \cup {ids}
           /\ processing' = IF entering THEN FlagOnEntry ELSE processing
      ELSE /\ queue' = q
           /\ runs' = runs
           /\ loops' = lps
           /\ processing' = FALSE

\* queueDocument(document)
QueueDocument(document) ==
  /\ UNCHANGED <<chunkVars, chromaVars>>
  /\ issued < MaxDocs
  /\ issued' = issued + 1
  /\ LET documentId == issued + 1
     IN  IF QueueFull(queue, maxQueueSize)
         THEN /\ lastCall' = [op |-> "queueDocument", error |-> QueueFullError, value |-> Undefined]
              /\ UNCHANGED <<queue, processing, loops, runs, supplied>>
         ELSE /\ lastCall' = [op |-> "queueDocument", error |-> Undefined, value |-> documentId]
              /\ supplied' = [supplied EXCEPT ![documentId] = document.content]
              /\ LET q == Append(queue, NewQueueItem(documentId, document))
                 IN  IF ~processing
                     THEN Drain(q, loops, TRUE)
                     ELSE /\ queue' = q
                          /\ UNCHANGED <<processing, loops, runs>>
  /\ UNCHANGED <<concurrentProcessing, maxQueueSize, collection, ctorInit, store>>

\* a loop that goes on without awaiting the runs of the batch
NotAwaited(batch) == TRUE

\* await Promise.all(processingPromises) is over: every run of the batch
\* has settled
AllSettled(batch) == \A id \in batch : runs[id].stage = "idle"

\* processQueue resumed after await Promise.all(processingPromises)
LoopResume(batch) ==
  /\ UNCHANGED <<chunkVars, chromaVars>>
  /\ batch \in loops
  /\ AllSettled(batch)
  /\ Drain(queue, loops \ {batch}, FALSE)
  /\ UNCHANGED <<concurrentProcessing, maxQueueSize, issued, supplied, lastCall,
                 collection, ctorInit, store>>

\* a pipeline run of document id ends in the catch block
RunFails(id, msg) ==
  /\ queue' = FailDocument(queue, id, msg, Timestamp)
  /\ runs' = [runs EXCEPT ![id] = IdleRun]

\* addDocumentChunks is called: initialize first when there is no collection
CallAddDocumentChunks(id, chunks) ==
  runs' = [runs EXCEPT ![id] = [stage |-> IF collection = "null" THEN "init" ELSE "embed",
                                 chunks |-> chunks, next |-> 0,
                                 embeddings |-> <<>>, requests |-> {}]]

\* processDocument resumed after await chunkDocument
ChunkingReturns(id) ==
  /\ UNCHANGED <<chunkVars, chromaVars>>
  /\ runs[id].stage = "chunk"
  /\ IF Len(runs[id].chunks) > 0
     THEN /\ queue' = SetProgress(queue, id, 50)
          /\ runs' = [runs EXCEPT ![id].stage = "analyze"]
     ELSE /\ queue' = SetProgress(queue, id, 80)
          /\ CallAddDocumentChunks(id, runs[id].chunks)
  /\ UNCHANGED <<processing, concurrentProcessing, maxQueueSize, loops, issued, supplied,
                 lastCall, collection, ctorInit, store>>

\* the four sub-extractions analyzeDocument runs under Promise.all, and how
\* each can end: the model call fails, the response holds no parsable JSON, or
\* the response is usable.  generateSummary returns the response unparsed.
SubExtractions == {"summary", "entities", "relationships", "classification"}
SubOutcomes == {"ok", "unparsable", "callFails"}
SubResults == { subs \in [SubExtractions -> SubOutcomes] : subs["summary"] # "unparsable" }

\* generateSummary, extractEntities, extractRelationships, classifyDocument:
\* a failed model call is rethrown, an unparsable response gives [] or {}
SubExtraction(outcome) ==
  CASE outcome = "callFails"  -> "throws"
    [] outcome = "unparsable" -> "empty"
    [] outcome = "ok"         -> "value"

\* analyzeDocument: Promise.all rejects as soon as one sub-extraction throws
AnalyzeDocument(subs) ==
  IF \E k \in SubExtractions : SubExtraction(subs[k]) = "throws" THEN "throw" ELSE "ok"

\* the ways analyzeDocument can end
AnalyzeOutcomes == { AnalyzeDocument(subs) : subs \in SubResults }

\* an entity as extractEntities parses it from the model's answer
ExtractedEntity == [name |-> "name", type |-> "type", confidence |-> "high"]

\* the DocumentAnalysisResult analyzeDocument returns: it has the properties
\* summary, entities, relationships, classification and confidence (in
\* hundredths), and no other
AnalysisResults ==
  [summary |-> "summary", entities |-> <<ExtractedEntity>>, relationships |-> <<>>,
   classification |-> "classification", confidence |-> 40]

\* processDocument: the entity stored in a chunk's metadata
ChunkEntity(entity) ==
  [name |-> entity.name, type |-> entity.type, mentions |-> 1,
   confidenceScore |-> entity.confidence]

\* processDocument, the body of "for (const chunk of chunks)": the analysis
\* results copied into one chunk's metadata
EnrichChunk(chunk, analysisResults) ==
  [chunk EXCEPT
     !.summary = IF analysisResults.summary # "" THEN analysisResults.summary ELSE @,
     !.entities = Present([i \in DOMAIN analysisResults.entities |->
                             ChunkEntity(analysisResults.entities[i])]),
     !.category = IF "category" \in DOMAIN analysisResults
                    THEN Present(analysisResults.category) ELSE @,
     !.confidenceScore = IF "confidence" \in DOMAIN analysisResults
                           THEN Present(analysisResults.confidence) ELSE @]

\* processDocument resumed after await analyzeDocument: "ok" (a result with a
\* summary) or "throw" (analyzeDocument rejected)
AnalyzeReturns(id, outcome) ==
  /\ UNCHANGED <<chunkVars, chromaVars>>
  /\ runs[id].stage = "analyze"
  /\ IF outcome = "ok"
     THEN /\ queue' = SetProgress(queue, id, 80)
          /\ CallAddDocumentChunks(id,
               [i \in DOMAIN runs[id].chunks |->
                  EnrichChunk(runs[id].chunks[i], AnalysisResults)])
     ELSE RunFails(id, AnalyzeError)
  /\ UNCHANGED <<processing, concurrentProcessing, maxQueueSize, loops, issued, supplied,
                 lastCall, collection, ctorInit, store>>

\* addDocumentChunks resumed after await this.initialize()
InitializeReturns(id, ok) ==
  /\ UNCHANGED <<chunkVars, chromaVars>>
  /\ runs[id].stage = "init"
  /\ IF ok
     THEN /\ collection' = "ready"
          /\ runs' = [runs EXCEPT ![id].stage = "embed"]
          /\ queue' = queue
     ELSE /\ RunFails(id, InitializeError)
          /\ collection' = collection
  /\ UNCHANGED <<processing, concurrentProcessing, maxQueueSize, loops, issued, supplied,
                 lastCall, ctorInit, store>>

\* the vector the embedding backend computes for a text
Embedding(content) == <<"embedding", content>>

\* a gather that pushes the vectors of a batch last request first
GatherBatchReversed(embeddings, texts, i) ==
  embeddings \o [k \in 1..Min(EmbedBatchSize, Len(texts) - i) |->
                   Embedding(texts[i + Min(EmbedBatchSize, Len(texts) - i) + 1 - k])]

\* generateEmbeddings, one pass of its loop once Promise.all has resolved:
\* the vectors of texts.slice(i, i + batchSize), in the order of the slice,
\* are pushed onto embeddings
GatherBatch(embeddings, texts, i) ==
  embeddings \o [k \in 1..Min(EmbedBatchSize, Len(texts) - i) |-> Embedding(texts[i + k])]

\* generateEmbeddings(texts) when every request succeeds
RECURSIVE EmbedFrom(_, _, _)
EmbedFrom(embeddings, texts, i) ==
  IF i < Len(texts)
    THEN EmbedFrom(GatherBatch(embeddings, texts, i), texts, i + EmbedBatchSize)
    ELSE embeddings
GenerateEmbeddings(texts) == EmbedFrom(<<>>, texts, 0)

\* addDocumentChunks: const texts = chunks.map(chunk => chunk.content)
TextsOf(chunks) == [i \in DOMAIN chunks |-> chunks[i].content]

\* addDocumentChunks resumed after await generateEmbeddings(texts)
EmbeddingsReturn(id, ok) ==
  /\ UNCHANGED <<chunkVars, chromaVars>>
  /\ runs[id].stage = "embed"
  /\ IF ok
     THEN IF Len(runs[id].chunks) > 0
          THEN /\ runs' = [runs EXCEPT ![id].stage = "add", ![id].next = 0,
                                       ![id].embeddings =
                                         GenerateEmbeddings(TextsOf(runs[id].chunks))]
               /\ queue' = queue
          ELSE /\ queue' = [i \in DOMAIN queue |->
                             IF queue[i].documentId = id
                             THEN MarkCompleted(queue[i], Timestamp) ELSE queue[i]]
               /\ runs' = [runs EXCEPT ![id] = IdleRun]
     ELSE RunFails(id, AddChunksError)
  /\ UNCHANGED <<processing, concurrentProcessing, maxQueueSize, loops, issued, supplied,
                 lastCall, collection, ctorInit, store>>

\* addDocumentChunks: an optional number goes into the stored metadata only
\* when it is truthy ("if (chunk.metadata.confidenceScore)")
StoredNumber(option) == IF option # Absent /\ option[1] # 0 THEN option ELSE Absent

\* the records one collection.add call writes: chunks next+1 .. next+batchSize
WriteBatch(chunks, embeddings, next) ==
  { [id |-> chunks[i].id, documentId |-> chunks[i].documentId,
     content |-> chunks[i].content, embedding |-> embeddings[i],
     summary |-> chunks[i].summary,
     entities |-> chunks[i].entities, category |-> chunks[i].category,
     confidenceScore |-> StoredNumber(chunks[i].confidenceScore)] :
    i \in { j \in DOMAIN chunks : j > next /\ j <= next + WriteBatchSize } }

\* a catch block that deletes what the earlier batches of the document stored
StoreRolledBack(st, id) == { r \in st : r.documentId # id }

\* the store after the catch blocks of addDocumentChunks and processDocument
\* have handled a failed collection.add: neither issues a delete
StoreAfterFailedWrite(st, id) == st

\* addDocumentChunks resumed after await this.collection.add(batch)
AddReturns(id, ok) ==
  /\ UNCHANGED <<chunkVars, chromaVars>>
  /\ runs[id].stage = "add"
  /\ IF ok
     THEN /\ store' = store \cup WriteBatch(runs[id].chunks, runs[id].embeddings, runs[id].next)
          /\ IF runs[id].next + WriteBatchSize < Len(runs[id].chunks)
             THEN /\ runs' = [runs EXCEPT ![id].next = runs[id].next + WriteBatchSize]
                  /\ queue' = queue
             ELSE /\ queue' = [i \in DOMAIN queue |->
                                IF queue[i].documentId = id
                                THEN MarkCompleted(queue[i], Timestamp) ELSE queue[i]]
                  /\ runs' = [runs EXCEPT ![id] = IdleRun]
     ELSE /\ RunFails(id, AddChunksError)
          /\ store' = StoreAfterFailedWrite(store, id)
  /\ UNCHANGED <<processing, concurrentProcessing, maxQueueSize, loops, issued, supplied,
                 lastCall, collection, ctorInit>>

\* the constructor's this.chromaService.initialize() settles
ConstructorInitializeReturns(ok) ==
  /\ UNCHANGED <<chunkVars, chromaVars>>
  /\ ctorInit = "pending"
  /\ ctorInit' = "settled"
  /\ collection' = IF ok THEN "ready" ELSE collection
  /\ UNCHANGED <<queue, processing, concurrentProcessing, maxQueueSize, loops, runs,
                 issued, supplied, lastCall, store>>

\* a filter that keeps the pending items only
KeptOnClearPendingOnly(item) == item.status = "pending"

\* the filter predicate of clearCompletedAndFailed
KeptOnClear(item) == item.status # "completed" /\ item.status # "failed"

\* clearCompletedAndFailed()
ClearCompletedAndFailed ==
  /\ UNCHANGED <<chunkVars, chromaVars>>
  /\ queue' = SelectSeq(queue, KeptOnClear)
  /\ lastCall' = [op |-> "clearCompletedAndFailed", error |-> Undefined, value |-> Undefined]
  /\ UNCHANGED <<processing, concurrentProcessing, maxQueueSize, loops, runs, issued,
                 supplied, collection, ctorInit, store>>

\* a filter that drops the item whatever its status
KeptOnRemoveAnyStatus(item, documentId) == item.documentId # documentId

\* the filter predicate of removeFromQueue
KeptOnRemove(item, documentId) ==
  ~(item.documentId = documentId /\ item.status # "processing")

\* removeFromQueue(documentId)
RemoveFromQueue(documentId) ==
  /\ UNCHANGED <<processing, concurrentProcessing, maxQueueSize, loops, runs, issued,
                 supplied, collection, ctorInit, store>>
  /\ queue' = SelectSeq(queue, LAMBDA it : KeptOnRemove(it, documentId))
  /\ lastCall' = [op |-> "removeFromQueue", error |-> Undefined,
                  value |-> (Len(queue') < Len(queue))]
  /\ UNCHANGED <<chunkVars, chromaVars>>

\* setConcurrentProcessing(limit)
SetConcurrentProcessing(limit) ==
  /\ UNCHANGED <<chunkVars, chromaVars>>
  /\ concurrentProcessing' = IF limit < MinConcurrentProcessing THEN MinConcurrentProcessing
                             ELSE IF limit > MaxConcurrentProcessing
                                  THEN MaxConcurrentProcessing ELSE limit
  /\ UNCHANGED lastCall
  /\ UNCHANGED <<queue, processing, maxQueueSize, loops, runs, issued, supplied,
                 collection, ctorInit, store>>

\* setMaxQueueSize(size)
SetMaxQueueSize(size) ==
  /\ UNCHANGED <<chunkVars, chromaVars>>
  /\ maxQueueSize' = IF size < MinMaxQueueSize THEN MinMaxQueueSize ELSE size
  /\ UNCHANGED lastCall
  /\ UNCHANGED <<queue, processing, concurrentProcessing, loops, runs, issued, supplied,
                 collection, ctorInit, store>>

\* no chunkDocument call of its own is under way
ChunkerIdle ==
  /\ text = <<>>
  /\ chunkSize = DefaultChunkSize
  /\ chunkOverlap = DefaultChunkOverlap
  /\ respectHeaders = TRUE
  /\ respectParagraphs = TRUE
  /\ cpc = "idle"
  /\ segments = <<>>
  /\ refinedChunks = <<>>
  /\ scanText = <<>>
  /\ scanCaller = "none"
  /\ currentPosition = 0
  /\ scanChunks = <<>>
  /\ windows = <<>>
  /\ documentChunks = <<>>

IndexerInit ==
  /\ queue = <<>>
  /\ processing = FALSE
  /\ concurrentProcessing = DefaultConcurrentProcessing
  /\ maxQueueSize = DefaultMaxQueueSize
  /\ loops = {}
  /\ runs = [id \in DocIds |-> IdleRun]
  /\ issued = 0
  /\ supplied = [id \in DocIds |-> NoContent]
  /\ lastCall = [op |-> "constructor", error |-> Undefined, value |-> Undefined]
  /\ collection = "null"
  /\ ctorInit = "pending"
  /\ store = {}

\* the client has called none of the store operations
NoCall == [op |-> "none", stage |-> "idle", arg |-> Undefined, records |-> {},
           ids |-> {}, neighbours |-> <<>>, result |-> Undefined, error |-> Undefined]

\* no initialize call is followed step by step; the queue model takes the
\* outcome of each call as a whole
ChromaIdle ==
  /\ isInMemory = TRUE
  /\ backendHas = FALSE
  /\ created = 0
  /\ ipc = [c \in 1..MaxCallers |-> "idle"]
  /\ reply = [c \in 1..MaxCallers |-> "none"]
  /\ call = NoCall

Init == ChunkerIdle /\ ChromaIdle /\ IndexerInit

Next ==
  \/ QueueDocument(Upload(issued + 1))
  \/ \E batch \in loops : LoopResume(batch)
  \/ \E id \in DocIds : ChunkingReturns(id)
  \/ \E id \in DocIds, outcome \in AnalyzeOutcomes : AnalyzeReturns(id, outcome)
  \/ \E id \in DocIds, ok \in BOOLEAN : InitializeReturns(id, ok)
  \/ \E id \in DocIds, ok \in BOOLEAN : EmbeddingsReturn(id, ok)
  \/ \E id \in DocIds, ok \in BOOLEAN : AddReturns(id, ok)
  \/ \E ok \in BOOLEAN : ConstructorInitializeReturns(ok)
  \/ ClearCompletedAndFailed
  \/ \E id \in DocIds : RemoveFromQueue(id)
  \/ \E limit \in LimitInputs : SetConcurrentProcessing(limit)
  \/ \E size \in SizeInputs : SetMaxQueueSize(size)

Spec == Init /\ [][Next]_vars

\* every backend call of a pipeline run eventually returns or throws, and a
\* resolved Promise.all resumes the drain loop (stated for the documents
\* LiveNext lets be queued: no other document ever has a run)
Fairness ==
  /\ WF_vars(\E batch \in loops : LoopResume(batch))
  /\ \A id \in 1..MaxLiveDocs :
       /\ WF_vars(ChunkingReturns(id))
       /\ WF_vars(\E outcome \in AnalyzeOutcomes : AnalyzeReturns(id, outcome))
       /\ WF_vars(\E ok \in BOOLEAN : InitializeReturns(id, ok))
       /\ WF_vars(\E ok \in BOOLEAN : EmbeddingsReturn(id, ok))
       /\ WF_vars(\E ok \in BOOLEAN : AddReturns(id, ok))

\* the runs of Spec in which at most MaxLiveDocs documents are queued
LiveNext ==
  \/ issued < MaxLiveDocs /\ QueueDocument(Upload(issued + 1))
  \/ \E batch \in loops : LoopResume(batch)
  \/ \E id \in DocIds : ChunkingReturns(id)
  \/ \E id \in DocIds, outcome \in AnalyzeOutcomes : AnalyzeReturns(id, outcome)
  \/ \E id \in DocIds, ok \in BOOLEAN : InitializeReturns(id, ok)
  \/ \E id \in DocIds, ok \in BOOLEAN : EmbeddingsReturn(id, ok)
  \/ \E id \in DocIds, ok \in BOOLEAN : AddReturns(id, ok)
  \/ \E ok \in BOOLEAN : ConstructorInitializeReturns(ok)
  \/ ClearCompletedAndFailed
  \/ \E id \in DocIds : RemoveFromQueue(id)
  \/ \E limit \in LimitInputs : SetConcurrentProcessing(limit)
  \/ \E size \in SizeInputs : SetMaxQueueSize(size)

LiveSpec == Init /\ [][LiveNext]_vars /\ Fairness

(***************************************************************************)
(* ChunkingService (src/unnamed/part_011)                                  *)
(* A string is a sequence of one-character strings; positions are the      *)
(* zero-based indices of the code.                                         *)
(***************************************************************************)
SetMax(S) == CHOOSE x \in S : \A y \in S : y <= x
SetMin(S) == CHOOSE x \in S : \A y \in S : x <= y

\* String.prototype.substring(a, b) for 0 <= a <= b <= length
Substring(s, a, b) == SubSeq(s, a + 1, b)

\* the regular expression class \s and String.prototype.trim
Whitespace == {" ", "\n", "\t", "\r"}
Digits == {"0", "1", "2", "3", "4", "5", "6", "7", "8", "9"}
Trim(s) ==
  LET solid == { i \in 1..Len(s) : s[i] \notin Whitespace }
  IN  IF solid = {} THEN <<>> ELSE SubSeq(s, SetMin(solid), SetMax(solid))

\* String.prototype.lastIndexOf(ch, fromIndex): the last index <= fromIndex
LastIndexOf(s, ch, fromIndex) ==
  LET found == { i \in 0..Min(fromIndex, Len(s) - 1) : s[i + 1] = ch }
  IN  IF found = {} THEN -1 ELSE SetMax(found)

\* the length of the longest run of characters of class C that starts at p
Run(s, p, C) ==
  IF p >= Len(s) THEN 0
  ELSE CHOOSE k \in 0..(Len(s) - p) :
         /\ \A j \in 0..(k - 1) : s[p + j + 1] \in C
         /\ (k = Len(s) - p \/ s[p + k + 1] \notin C)

HasPrefixAt(s, p, lit) ==
  /\ p + Len(lit) <= Len(s)
  /\ SubSeq(s, p + 1, p + Len(lit)) = lit

SectionWord == <<"S", "E", "C", "T", "I", "O", "N", " ">>
ChapterWord == <<"C", "H", "A", "P", "T", "E", "R", " ">>

\* \d+ at q followed by the character `closer`: the index after it, or -1
NumberThen(s, q, closer) ==
  LET d == Run(s, q, Digits)
  IN  IF d >= 1 /\ q + d < Len(s) /\ s[q + d + 1] = closer THEN q + d + 1 ELSE -1

\* index q is inside s and holds a whitespace character: q + 1, or -1
SpaceAt(s, q) ==
  IF q >= 0 /\ q < Len(s) /\ s[q + 1] \in Whitespace THEN q + 1 ELSE -1

\* the alternatives "#{1,6} ", "SECTION \d+:", "CHAPTER \d+:", "\d+\.\s" and
\* "\[\d+\]\s" of the header pattern tried at p: the index after the match, or -1
HeaderTokenEnd(s, p) ==
  LET h == Run(s, p, {"#"})
  IN  IF p >= Len(s) THEN -1
      ELSE IF h >= 1 /\ h <= MaxHeaderHashes /\ p + h < Len(s) /\ s[p + h + 1] = " "
        THEN p + h + 1
      ELSE IF HasPrefixAt(s, p, SectionWord) THEN NumberThen(s, p + Len(SectionWord), ":")
      ELSE IF HasPrefixAt(s, p, ChapterWord) THEN NumberThen(s, p + Len(ChapterWord), ":")
      ELSE IF s[p + 1] \in Digits THEN
        (IF NumberThen(s, p, ".") = -1 THEN -1 ELSE SpaceAt(s, NumberThen(s, p, ".")))
      ELSE IF s[p + 1] = "[" THEN
        (IF NumberThen(s, p + 1, "]") = -1 THEN -1 ELSE SpaceAt(s, NumberThen(s, p + 1, "]")))
      ELSE -1

\* the header pattern /(?:\n|^)(?:...)/ tried at index i: the index after the
\* match, or -1.  Without the m flag "^" matches at index 0 only.
\* No alternative of the group starts with "\n", so at a newline only the
\* first branch of (?:\n|^) can lead to a match.
HeaderMatchAt(s, i) ==
  IF i < Len(s) /\ s[i + 1] = "\n" THEN HeaderTokenEnd(s, i + 1)
  ELSE IF i = 0 THEN HeaderTokenEnd(s, 0)
  ELSE -1

\* the match.index values of the successive headerPattern.exec(text) calls
RECURSIVE HeaderMatches(_, _)
HeaderMatchesAt(s, i) == <<i>> \o HeaderMatches(s, HeaderMatchAt(s, i))
FirstHeaderMatch(s, found) == IF found = {} THEN <<>> ELSE HeaderMatchesAt(s, SetMin(found))
HeaderMatches(s, from) ==
  FirstHeaderMatch(s, { i \in from..(Len(s) - 1) : HeaderMatchAt(s, i) # -1 })

\* the while loop of the header pass, from the k-th match on
RECURSIVE HeaderLoop(_, _, _, _, _)
HeaderLoop(s, ms, k, lastIndex, chunks) ==
  IF k > Len(ms) THEN [lastIndex |-> lastIndex, chunks |-> chunks]
  ELSE HeaderLoop(s, ms, k + 1, ms[k],
                  IF /\ ms[k] # 0
                     /\ lastIndex # 0
                     /\ Len(Trim(Substring(s, lastIndex, ms[k]))) > 0
                    THEN Append(chunks, Substring(s, lastIndex, ms[k])) ELSE chunks)

\* the last chunk of the header pass: the text from lastIndex to the end
LastHeaderChunk(s, after) ==
  IF after.lastIndex < Len(s) /\ Len(Trim(Substring(s, after.lastIndex, Len(s)))) > 0
    THEN Append(after.chunks, Substring(s, after.lastIndex, Len(s))) ELSE after.chunks

\* the header pass of splitByStructure: the loop, then the last chunk
HeaderPass(s) == LastHeaderChunk(s, HeaderLoop(s, HeaderMatches(s, 0), 1, 0, <<>>))

\* the pattern /\n\s*\n/ tried at index i: the index after the match, or -1
ParagraphBreakAt(s, i) ==
  IF i < Len(s) /\ s[i + 1] = "\n"
    THEN LET r == Run(s, i + 1, Whitespace)
             closing == { k \in (i + 1)..(i + r) : s[k + 1] = "\n" }
         IN  IF closing = {} THEN -1 ELSE SetMax(closing) + 1
  ELSE -1

\* text.split(/\n\s*\n/), from the piece that starts at p
RECURSIVE SplitParagraphs(_, _)
SplitAt(s, p, i) == <<Substring(s, p, i)>> \o SplitParagraphs(s, ParagraphBreakAt(s, i))
FirstParagraphBreak(s, p, found) ==
  IF found = {} THEN <<Substring(s, p, Len(s))>> ELSE SplitAt(s, p, SetMin(found))
SplitParagraphs(s, p) ==
  FirstParagraphBreak(s, p, { i \in p..(Len(s) - 1) : ParagraphBreakAt(s, i) # -1 })

\* the for loop of the paragraph pass, from the k-th paragraph on
RECURSIVE ParagraphLoop(_, _, _, _, _)
ParagraphLoop(ps, k, currentChunk, chunks, size) ==
  IF k > Len(ps) THEN [currentChunk |-> currentChunk, chunks |-> chunks]
  ELSE IF Len(Trim(ps[k])) = 0 THEN ParagraphLoop(ps, k + 1, currentChunk, chunks, size)
  ELSE IF Len(currentChunk) + Len(ps[k]) > size /\ Len(currentChunk) > 0
    THEN ParagraphLoop(ps, k + 1, ps[k], Append(chunks, currentChunk), size)
  ELSE ParagraphLoop(ps, k + 1,
                     IF Len(currentChunk) > 0 THEN currentChunk \o <<"\n", "\n">> \o ps[k]
                                              ELSE ps[k],
                     chunks, size)

\* the paragraph pass of splitByStructure; it appends to the array the header
\* pass has filled
LastParagraphChunk(after) ==
  IF Len(Trim(after.currentChunk)) > 0
    THEN Append(after.chunks, after.currentChunk) ELSE after.chunks
ParagraphPass(s, chunks, size) ==
  LastParagraphChunk(ParagraphLoop(SplitParagraphs(s, 0), 1, <<>>, chunks, size))

\* splitByStructure after its paragraph pass: more than one chunk is
\* returned, anything else hands the whole text to splitByCharacters
AfterParagraphPass(paragraphs, chunks) ==
  IF paragraphs /\ Len(chunks) > 1 THEN [tier |-> "paragraphs", chunks |-> chunks]
  ELSE [tier |-> "characters", chunks |-> <<>>]

\* splitByStructure after its header pass: more than one chunk is returned,
\* anything else goes on to the paragraph pass with the same chunks array
AfterHeaderPass(s, size, headers, paragraphs, chunks) ==
  IF headers /\ Len(chunks) > 1 THEN [tier |-> "headers", chunks |-> chunks]
  ELSE AfterParagraphPass(paragraphs,
                          IF paragraphs THEN ParagraphPass(s, chunks, size) ELSE chunks)

\* splitByStructure up to its last line: the tier that returns and its chunks
SplitByStructure(s, size, headers, paragraphs) ==
  IF Len(s) <= size THEN [tier |-> "whole", chunks |-> <<s>>]
  ELSE AfterHeaderPass(s, size, headers, paragraphs,
                       IF headers THEN HeaderPass(s) ELSE <<>>)

\* validBreakpoints of splitByCharacters
ValidBreakpoints(s, cur, endPosition) ==
  { pos \in { LastIndexOf(s, ".", endPosition), LastIndexOf(s, "?", endPosition),
              LastIndexOf(s, "!", endPosition), LastIndexOf(s, "\n", endPosition) } :
      pos > cur /\ pos > endPosition - BreakpointLookback }

\* endPosition of one pass of the while loop of splitByCharacters
CutAt(endPosition, breakpoints) ==
  IF breakpoints # {} THEN SetMax(breakpoints) + 1 ELSE endPosition
MoveToBreakpoint(s, cur, endPosition) ==
  IF endPosition < Len(s) THEN CutAt(endPosition, ValidBreakpoints(s, cur, endPosition))
  ELSE endPosition
WindowEnd(s, cur, size) == MoveToBreakpoint(s, cur, Min(cur + size, Len(s)))

\* currentPosition after one pass of the while loop of splitByCharacters
NextPosition(cur, endPosition, overlap) ==
  IF endPosition - overlap <= 0 \/ endPosition - overlap >= endPosition
    THEN endPosition ELSE endPosition - overlap

\* a map callback that numbers the chunks from 1
MakeDocumentChunksFromOne(documentId, title, contents) ==
  [ i \in 1..Len(contents) |->
      [id |-> GenerateChunkId(documentId, i), documentId |-> documentId,
       content |-> contents[i], title |-> title,
       chunkIndex |-> i, totalChunks |-> Len(contents), summary |-> Undefined,
       entities |-> Absent, category |-> Absent, confidenceScore |-> Absent] ]

\* the DocumentChunk records chunkDocument builds from the refined chunks
MakeDocumentChunks(documentId, title, contents) ==
  [ i \in 1..Len(contents) |->
      [id |-> GenerateChunkId(documentId, i - 1), documentId |-> documentId,
       content |-> contents[i], title |-> title,
       chunkIndex |-> i - 1, totalChunks |-> Len(contents), summary |-> Undefined,
       entities |-> Absent, category |-> Absent, confidenceScore |-> Absent] ]

\* chunkDocument, first line: splitByStructure runs up to its return or up
\* to its call of splitByCharacters
StructureReturns(split) ==
  IF split.tier = "characters"
    THEN /\ cpc' = "scan"
         /\ scanText' = text
         /\ scanCaller' = "structure"
         /\ UNCHANGED segments
    ELSE /\ cpc' = "refine"
         /\ segments' = split.chunks
         /\ UNCHANGED <<scanText, scanCaller>>

CSplitByStructure ==
  /\ cpc = "start"
  /\ StructureReturns(SplitByStructure(text, chunkSize, respectHeaders, respectParagraphs))
  /\ currentPosition' = 0
  /\ scanChunks' = <<>>
  /\ windows' = <<>>
  /\ UNCHANGED <<text, chunkSize, chunkOverlap, respectHeaders, respectParagraphs,
                 refinedChunks, documentChunks, coordVars, chromaVars>>

\* refineLargeChunks, one pass of its for loop: a chunk that fits is kept, a
\* larger one is handed to splitByCharacters
CRefineNext ==
  /\ cpc = "refine"
  /\ segments # <<>>
  /\ IF Len(Head(segments)) <= chunkSize
       THEN /\ refinedChunks' = Append(refinedChunks, Head(segments))
            /\ segments' = Tail(segments)
            /\ UNCHANGED <<cpc, scanText, scanCaller>>
       ELSE /\ cpc' = "scan"
            /\ scanText' = Head(segments)
            /\ scanCaller' = "refine"
            /\ UNCHANGED <<segments, refinedChunks>>
  /\ currentPosition' = 0
  /\ scanChunks' = <<>>
  /\ windows' = <<>>
  /\ UNCHANGED <<text, chunkSize, chunkOverlap, respectHeaders, respectParagraphs,
                 documentChunks, coordVars, chromaVars>>

\* the rest of a pass of the while loop once endPosition is settled
PushWindow(endPosition) ==
  /\ scanChunks' = Append(scanChunks, Trim(Substring(scanText, currentPosition, endPosition)))
  /\ windows' = Append(windows, <<currentPosition, endPosition>>)
  /\ currentPosition' = NextPosition(currentPosition, endPosition, chunkOverlap)

\* splitByCharacters, one pass of its while loop
CScanStep ==
  /\ cpc = "scan"
  /\ currentPosition < Len(scanText)
  /\ Len(scanChunks) < MaxWindows
  /\ PushWindow(WindowEnd(scanText, currentPosition, chunkSize))
  /\ UNCHANGED <<text, chunkSize, chunkOverlap, respectHeaders, respectParagraphs, cpc,
                 segments, refinedChunks, scanText, scanCaller, documentChunks, coordVars, chromaVars>>

\* splitByCharacters returns to its caller
CScanReturn ==
  /\ cpc = "scan"
  /\ currentPosition >= Len(scanText)
  /\ cpc' = "refine"
  /\ IF scanCaller = "structure"
       THEN /\ segments' = scanChunks
            /\ UNCHANGED refinedChunks
       ELSE /\ refinedChunks' = refinedChunks \o scanChunks
            /\ segments' = Tail(segments)
  /\ scanCaller' = "none"
  /\ UNCHANGED <<text, chunkSize, chunkOverlap, respectHeaders, respectParagraphs,
                 scanText, currentPosition, scanChunks, windows, documentChunks, coordVars, chromaVars>>

\* chunkDocument maps the refined chunks to DocumentChunk records and returns
CFinish ==
  /\ cpc = "refine"
  /\ segments = <<>>
  /\ cpc' = "done"
  /\ documentChunks' = MakeDocumentChunks(1, <<"title", 1>>, refinedChunks)
  /\ UNCHANGED <<text, chunkSize, chunkOverlap, respectHeaders, respectParagraphs,
                 segments, refinedChunks, scanText, scanCaller, currentPosition,
                 scanChunks, windows, coordVars, chromaVars>>

\* the texts chunkDocument is checked on: up to MaxPieces pieces in a row
RECURSIVE Flatten(_)
Flatten(ss) == IF ss = <<>> THEN <<>> ELSE Head(ss) \o Flatten(Tail(ss))
Pieces == { <<"a">>, <<".">>, <<"\n">>, <<" ">>, <<"#", " ">>, <<"\n", "#", " ">> }
Texts == { Flatten(ss) : ss \in UNION { [1..k -> Pieces] : k \in 0..MaxPieces } }

ChunkInit ==
  /\ IndexerInit
  /\ ChromaIdle
  /\ text \in Texts
  /\ chunkSize \in 1..MaxChunkSize
  /\ chunkOverlap \in 0..(chunkSize - 1)
  /\ respectHeaders \in BOOLEAN
  /\ respectParagraphs \in BOOLEAN
  /\ cpc = "start"
  /\ segments = <<>>
  /\ refinedChunks = <<>>
  /\ scanText = <<>>
  /\ scanCaller = "none"
  /\ currentPosition = 0
  /\ scanChunks = <<>>
  /\ windows = <<>>
  /\ documentChunks = <<>>

ChunkNext ==
  \/ CSplitByStructure
  \/ CRefineNext
  \/ CScanStep
  \/ CScanReturn
  \/ CFinish

ChunkSpec == ChunkInit /\ [][ChunkNext]_vars

\* chunkDocument under options the constructor and updateOptions accept
\* unchecked: a chunkOverlap that is not smaller than chunkSize
OverlapInit ==
  /\ IndexerInit
  /\ ChromaIdle
  /\ text \in Texts
  /\ chunkSize \in 1..MaxChunkSize
  /\ chunkOverlap \in chunkSize..MaxChunkOverlap
  /\ respectHeaders \in BOOLEAN
  /\ respectParagraphs \in BOOLEAN
  /\ cpc = "start"
  /\ segments = <<>>
  /\ refinedChunks = <<>>
  /\ scanText = <<>>
  /\ scanCaller = "none"
  /\ currentPosition = 0
  /\ scanChunks = <<>>
  /\ windows = <<>>
  /\ documentChunks = <<>>

OverlapSpec == OverlapInit /\ [][ChunkNext]_vars

(***************************************************************************)
(* ChromaService.initialize under concurrent callers                       *)
(* (src/server/services/database.ts).  Caller 1 is the IndexerService      *)
(* constructor; the others are addDocumentChunks, searchSimilarChunks and  *)
(* the like, which call initialize when they find no collection handle.    *)
(* The Chroma backend keeps collection names unique: createCollection on   *)
(* a name that exists is refused, getCollection on a missing name throws.  *)
(***************************************************************************)
Callers == 1..MaxCallers
ConstructorCaller == 1

\* the request initialize sends first: getCollection in in-memory mode,
\* listCollections otherwise
FirstRequest(inMemory) == IF inMemory THEN "get" ELSE "list"

\* what the backend answers to a request, given whether the collection exists
BackendReply(request, exists) ==
  CASE request = "list"   -> IF exists THEN "listed" ELSE "notListed"
    [] request = "get"    -> IF exists THEN "handle" ELSE "notFound"
    [] request = "create" -> IF exists THEN "duplicate" ELSE "created"

\* whether the collection exists once the backend has carried out a request
BackendAfter(request, exists) == exists \/ request = "create"

\* where initialize goes when the awaited reply arrives: the next request it
\* sends, or "done" when it returns, or "failed" when it throws
AfterReply(inMemory, answer) ==
  CASE answer = "listed"    -> "get"
    [] answer = "notListed" -> "create"
    [] answer = "handle"    -> "done"
    [] answer = "notFound"  -> IF inMemory THEN "create" ELSE "failed"
    [] answer = "created"   -> "done"
    [] answer = "duplicate" -> "failed"

\* a caller enters initialize, which runs up to its first await; every caller
\* but the constructor enters only when it finds this.collection null
InitializeCalled(c) ==
  /\ ipc[c] = "idle"
  /\ c # ConstructorCaller => collection = "null"
  /\ ipc' = [ipc EXCEPT ![c] = FirstRequest(isInMemory)]
  /\ UNCHANGED <<reply, backendHas, created, isInMemory, call>>
  /\ UNCHANGED <<coordVars, chunkVars>>

\* the backend carries out the request a caller is waiting on
BackendAnswers(c) ==
  /\ ipc[c] \in {"list", "get", "create"}
  /\ reply[c] = "none"
  /\ reply' = [reply EXCEPT ![c] = BackendReply(ipc[c], backendHas)]
  /\ backendHas' = BackendAfter(ipc[c], backendHas)
  /\ created' = IF ipc[c] = "create" /\ ~backendHas THEN created + 1 ELSE created
  /\ UNCHANGED <<ipc, isInMemory, call>>
  /\ UNCHANGED <<coordVars, chunkVars>>

\* the awaited reply arrives and initialize runs on to its next await, its
\* return or its throw; a handle that arrives is stored in this.collection
InitializeResumes(c) ==
  /\ reply[c] # "none"
  /\ ipc' = [ipc EXCEPT ![c] = AfterReply(isInMemory, reply[c])]
  /\ reply' = [reply EXCEPT ![c] =
                 IF AfterReply(isInMemory, reply[c]) \in {"done", "failed"}
                   THEN reply[c] ELSE "none"]
  /\ collection' = IF reply[c] \in {"handle", "created"} THEN "ready" ELSE collection
  /\ UNCHANGED <<backendHas, created, isInMemory, call>>
  /\ UNCHANGED <<queue, processing, concurrentProcessing, maxQueueSize, loops, runs,
                 issued, supplied, lastCall, ctorInit, store>>
  /\ UNCHANGED chunkVars

InitStart ==
  /\ ChunkerIdle
  /\ IndexerInit
  /\ isInMemory \in BOOLEAN
  /\ backendHas \in BOOLEAN
  /\ created = 0
  /\ ipc = [c \in Callers |-> "idle"]
  /\ reply = [c \in Callers |-> "none"]
  /\ call = NoCall

InitNext ==
  \/ \E c \in Callers : InitializeCalled(c)
  \/ \E c \in Callers : BackendAnswers(c)
  \/ \E c \in Callers : InitializeResumes(c)

InitSpec == InitStart /\ [][InitNext]_vars

(***************************************************************************)
(* The store write of a pipeline run on chunk lists of several batches     *)
(* (part_013:203-220, database.ts:233-288).  processDocument is taken up   *)
(* where it calls addDocumentChunks; the chunk list chunkDocument gave it  *)
(* is an input, so that lists longer than one write batch occur.           *)
(***************************************************************************)
\* the lengths of the chunk lists tried
BatchListSizes == {1, WriteBatchSize, WriteBatchSize + 1, 2 * WriteBatchSize + 1}

\* n chunk texts, and the chunk list chunkDocument builds from chunk texts
TextsOfLength(n) == [i \in 1..n |-> <<"text", i>>]
ChunkList(id, contents) == MakeDocumentChunks(id, <<"title", id>>, contents)

\* processDocument of a newly selected item arrives at addDocumentChunks
\* with the chunks of the given texts: the item is processing at progress 80
ReachesStoreWrite(contents) ==
  /\ issued < MaxBatchDocs
  /\ issued' = issued + 1
  /\ queue' = Append(queue, [ProcessDocumentStart(NewQueueItem(issued + 1, Upload(issued + 1)),
                                                  Timestamp) EXCEPT !.progress = 80])
  /\ supplied' = [supplied EXCEPT ![issued + 1] = Upload(issued + 1).content]
  /\ CallAddDocumentChunks(issued + 1, ChunkList(issued + 1, contents))
  /\ UNCHANGED <<processing, concurrentProcessing, maxQueueSize, loops, lastCall,
                 collection, ctorInit, store>>
  /\ UNCHANGED <<chunkVars, chromaVars>>

\* processDocument of a newly selected item arrives at analyzeDocument with
\* the chunks of the given texts: the item is processing at progress 50
ReachesAnalysis(contents) ==
  /\ issued < MaxBatchDocs
  /\ contents # <<>>
  /\ issued' = issued + 1
  /\ queue' = Append(queue, [ProcessDocumentStart(NewQueueItem(issued + 1, Upload(issued + 1)),
                                                  Timestamp) EXCEPT !.progress = 50])
  /\ supplied' = [supplied EXCEPT ![issued + 1] = Upload(issued + 1).content]
  /\ runs' = [runs EXCEPT ![issued + 1] = [stage |-> "analyze",
                                           chunks |-> ChunkList(issued + 1, contents),
                                           next |-> 0, embeddings |-> <<>>,
                                           requests |-> {}]]
  /\ UNCHANGED <<processing, concurrentProcessing, maxQueueSize, loops, lastCall,
                 collection, ctorInit, store>>
  /\ UNCHANGED <<chunkVars, chromaVars>>

\* the constructor's initialize has resolved and nothing is queued
BatchInit ==
  /\ ChunkerIdle
  /\ ChromaIdle
  /\ queue = <<>>
  /\ processing = FALSE
  /\ concurrentProcessing = DefaultConcurrentProcessing
  /\ maxQueueSize = DefaultMaxQueueSize
  /\ loops = {}
  /\ runs = [id \in DocIds |-> IdleRun]
  /\ issued = 0
  /\ supplied = [id \in DocIds |-> NoContent]
  /\ lastCall = [op |-> "constructor", error |-> Undefined, value |-> Undefined]
  /\ collection = "ready"
  /\ ctorInit = "settled"
  /\ store = {}

BatchNext ==
  \/ \E n \in BatchListSizes : ReachesStoreWrite(TextsOfLength(n))
  \/ \E id \in DocIds, ok \in BOOLEAN : EmbeddingsReturn(id, ok)
  \/ \E id \in DocIds, ok \in BOOLEAN : AddReturns(id, ok)

BatchSpec == BatchInit /\ [][BatchNext]_vars

\* generateEmbeddings: the requests outstanding once the batch that starts
\* at i has been sent, named by the position of their text
BatchRequests(texts, i) == { i + k : k \in 1..Min(EmbedBatchSize, Len(texts) - i) }

\* processDocument of a newly selected item arrives at addDocumentChunks with
\* the chunks of the given texts while no other run is under way, and
\* generateEmbeddings sends the requests of its first batch
AddDocumentChunksCalled(contents) ==
  /\ issued < MaxBatchDocs
  /\ \A id \in DocIds : runs[id].stage = "idle"
  /\ contents # <<>>
  /\ issued' = issued + 1
  /\ queue' = Append(queue, [ProcessDocumentStart(NewQueueItem(issued + 1, Upload(issued + 1)),
                                                  Timestamp) EXCEPT !.progress = 80])
  /\ supplied' = [supplied EXCEPT ![issued + 1] = Upload(issued + 1).content]
  /\ runs' = [runs EXCEPT ![issued + 1] =
                [stage |-> "embedding", chunks |-> ChunkList(issued + 1, contents),
                 next |-> 0, embeddings |-> <<>>, requests |-> BatchRequests(contents, 0)]]
  /\ UNCHANGED <<processing, concurrentProcessing, maxQueueSize, loops, lastCall,
                 collection, ctorInit, store>>
  /\ UNCHANGED <<chunkVars, chromaVars>>

\* generateEmbeddings resumed after await Promise.all(batchPromises): the
\* batch is gathered, then the next batch is sent or the vectors are returned
\* to addDocumentChunks, which goes on to its first collection.add
BatchGathered(run, embeddings) ==
  IF Len(embeddings) < Len(run.chunks)
    THEN [run EXCEPT !.embeddings = embeddings,
                     !.requests = BatchRequests(TextsOf(run.chunks), Len(embeddings))]
    ELSE [run EXCEPT !.stage = "add", !.next = 0, !.embeddings = embeddings,
                     !.requests = {}]

\* a pipeline that stores the vectors of a batch as soon as it is gathered
StoreStreamed(st, run, embeddings) == st \cup WriteBatch(run.chunks, embeddings, 0)

\* the store while generateEmbeddings runs: it has no access to the
\* collection, and addDocumentChunks writes nothing before it has returned
StoreWhileEmbedding(st, run, embeddings) == st

\* the request for the text at position k is answered with its vector; when
\* it was the last one outstanding, Promise.all resolves
EmbeddingResolves(id, k) ==
  /\ runs[id].stage = "embedding"
  /\ k \in runs[id].requests
  /\ runs' = [runs EXCEPT ![id] =
                IF runs[id].requests = {k}
                  THEN BatchGathered(runs[id],
                                     GatherBatch(runs[id].embeddings, TextsOf(runs[id].chunks),
                                                 Len(runs[id].embeddings)))
                  ELSE [runs[id] EXCEPT !.requests = @ \ {k}]]
  /\ store' = IF runs[id].requests = {k}
                THEN StoreWhileEmbedding(store, runs[id],
                                         GatherBatch(runs[id].embeddings,
                                                     TextsOf(runs[id].chunks),
                                                     Len(runs[id].embeddings)))
                ELSE store
  /\ UNCHANGED <<queue, processing, concurrentProcessing, maxQueueSize, loops, issued,
                 supplied, lastCall, collection, ctorInit>>
  /\ UNCHANGED <<chunkVars, chromaVars>>

\* the request for the text at position k fails: Promise.all rejects and the
\* run ends in the catch blocks
EmbeddingRejects(id, k) ==
  /\ runs[id].stage = "embedding"
  /\ k \in runs[id].requests
  /\ RunFails(id, AddChunksError)
  /\ UNCHANGED <<processing, concurrentProcessing, maxQueueSize, loops, issued,
                 supplied, lastCall, collection, ctorInit, store>>
  /\ UNCHANGED <<chunkVars, chromaVars>>

\* the chunk counts of the documents embedded in EmbedSpec
EmbedListSizes == {1, EmbedBatchSize + 1, WriteBatchSize + 1}
EmbedPositions == 1..(WriteBatchSize + 1)

\* addDocumentChunks with every embedding request as a step of its own
EmbedNext ==
  \/ \E n \in EmbedListSizes : AddDocumentChunksCalled(TextsOfLength(n))
  \/ \E id \in DocIds, k \in EmbedPositions : EmbeddingResolves(id, k)
  \/ \E id \in DocIds, k \in EmbedPositions : EmbeddingRejects(id, k)
  \/ \E id \in DocIds, ok \in BOOLEAN : AddReturns(id, ok)

EmbedSpec == BatchInit /\ [][EmbedNext]_vars

\* the chunk counts of the documents enriched in EnrichSpec
EnrichListSizes == {1, 2, 3, WriteBatchSize + 1}

\* pipeline runs from the enrichment to the end of the store write
EnrichNext ==
  \/ \E n \in EnrichListSizes : ReachesAnalysis(TextsOfLength(n))
  \/ \E id \in DocIds, outcome \in AnalyzeOutcomes : AnalyzeReturns(id, outcome)
  \/ \E id \in DocIds, ok \in BOOLEAN : EmbeddingsReturn(id, ok)
  \/ \E id \in DocIds, ok \in BOOLEAN : AddReturns(id, ok)

EnrichSpec == BatchInit /\ [][EnrichNext]_vars

(***************************************************************************)
(* ChromaService reads, searches and deletes next to the pipeline's store  *)
(* writes (database.ts:297-493, part_013:292-300).  One client issues the  *)
(* calls one after the other; pipeline runs write concurrently.  Distances *)
(* and scores are counted in hundredths.                                   *)
(***************************************************************************)
\* the empty string, the one string value JavaScript takes as false
EmptyText == <<>>
IsFalsy(content) == content = EmptyText

\* the chunk texts of the documents written in StoreSpec
StoreTextLists == { TextsOfLength(1), <<EmptyText>>, <<<<"text", 1>>, EmptyText>> }

\* collection.get({where: {documentId}}): the records of one document
RecordsOf(st, documentId) == { r \in st : r.documentId = documentId }

\* the result loop of getDocumentChunks: records whose content is falsy are
\* skipped (every record written by addDocumentChunks has metadata)
ChunksWithContent(records) == { r \in records : ~IsFalsy(r.content) }

\* getAllDocumentIds: the documentId of every record's metadata
GetAllDocumentIds(st) == { r.documentId : r \in st }

DeleteDocumentError == "Failed to delete document: Failed to delete document chunks"
GetAllDocumentsError == "Failed to get all document IDs"
SearchError == "Failed to search similar chunks"

\* the distances the backend may report, and the arguments of the searches
Distances == {8, 25, 40}
MaxResultsInputs == {1, 2}
ThresholdInputs == {75}

\* collection.query with nResults = k: the answers the backend may give, each
\* a list of distinct records of the store with their distances, nearest first
NearestNeighbours(st, k) ==
  { resp \in [1..Min(k, Cardinality(st)) -> st \X Distances] :
      /\ \A i, j \in DOMAIN resp : i < j => resp[i][1] # resp[j][1]
      /\ \A i, j \in DOMAIN resp : i < j => resp[i][2] <= resp[j][2] }

\* score = 1 - distance
Score(distance) == ScoreScale - distance

\* a threshold test that also drops a score equal to the threshold
AboveThreshold(score, threshold) == score > threshold

\* the threshold test of searchSimilarChunks: "if (score < threshold) continue"
PassesThreshold(score, threshold) == ~(score < threshold)

\* the neighbours searchSimilarChunks keeps
KeptNeighbours(resp, threshold) ==
  SelectSeq(resp, LAMBDA n : ~IsFalsy(n[1].content) /\ PassesThreshold(Score(n[2]), threshold))

\* the SearchResult built from the kept neighbours
SearchResult(kept) ==
  [chunks      |-> [i \in DOMAIN kept |-> kept[i][1]],
   documentIds |-> [i \in DOMAIN kept |-> kept[i][1].documentId],
   scores      |-> [i \in DOMAIN kept |-> Score(kept[i][2])]]

CallSettled == call.stage \in {"idle", "resolved", "rejected"}

\* IndexerService.deleteDocument(d) calls deleteDocumentChunks(d), which runs
\* up to the collection.get of getDocumentChunks
DeleteDocumentCalled(documentId) ==
  /\ CallSettled
  /\ call' = [NoCall EXCEPT !.op = "deleteDocument", !.arg = documentId, !.stage = "get"]
  /\ UNCHANGED <<isInMemory, backendHas, created, ipc, reply>>
  /\ UNCHANGED <<coordVars, chunkVars>>

\* deleteDocumentChunks resumed after await getDocumentChunks: the ids of the
\* chunks it returned are deleted next; with no ids the call is over
DocumentChunksReturn(ok) ==
  /\ call.op = "deleteDocument"
  /\ call.stage = "get"
  /\ call' = IF ok
               THEN [call EXCEPT
                       !.records = RecordsOf(store, call.arg),
                       !.ids = { r.id : r \in ChunksWithContent(RecordsOf(store, call.arg)) },
                       !.stage = IF ChunksWithContent(RecordsOf(store, call.arg)) = {}
                                   THEN "resolved" ELSE "delete"]
               ELSE [call EXCEPT !.stage = "rejected", !.error = DeleteDocumentError]
  /\ UNCHANGED <<isInMemory, backendHas, created, ipc, reply>>
  /\ UNCHANGED <<coordVars, chunkVars>>

\* deleteDocumentChunks resumed after await collection.delete({ids})
ChunksDeleted(ok) ==
  /\ call.op = "deleteDocument"
  /\ call.stage = "delete"
  /\ IF ok
       THEN /\ store' = { r \in store : r.id \notin call.ids }
            /\ call' = [call EXCEPT !.stage = "resolved"]
       ELSE /\ store' = store
            /\ call' = [call EXCEPT !.stage = "rejected", !.error = DeleteDocumentError]
  /\ UNCHANGED <<isInMemory, backendHas, created, ipc, reply>>
  /\ UNCHANGED <<queue, processing, concurrentProcessing, maxQueueSize, loops, runs,
                 issued, supplied, lastCall, collection, ctorInit>>
  /\ UNCHANGED chunkVars

\* getAllDocumentIds(), from the call to its return or throw
GetAllDocumentIdsCalled(ok) ==
  /\ CallSettled
  /\ call' = IF ok
               THEN [NoCall EXCEPT !.op = "getAllDocumentIds", !.stage = "resolved",
                                   !.result = GetAllDocumentIds(store)]
               ELSE [NoCall EXCEPT !.op = "getAllDocumentIds", !.stage = "rejected",
                                   !.error = GetAllDocumentsError]
  /\ UNCHANGED <<isInMemory, backendHas, created, ipc, reply>>
  /\ UNCHANGED <<coordVars, chunkVars>>

\* searchSimilarChunks(query, k, threshold), from the call to its return, for
\* any answer of the backend
SearchSimilarChunksCalled(k, threshold) ==
  /\ CallSettled
  /\ \E resp \in NearestNeighbours(store, k) :
       call' = [NoCall EXCEPT !.op = "searchSimilarChunks", !.stage = "resolved",
                              !.arg = <<k, threshold>>, !.neighbours = resp,
                              !.result = SearchResult(KeptNeighbours(resp, threshold))]
  /\ UNCHANGED <<isInMemory, backendHas, created, ipc, reply>>
  /\ UNCHANGED <<coordVars, chunkVars>>

\* searchSimilarChunks when the query embedding or the query fails
SearchSimilarChunksFails(k, threshold) ==
  /\ CallSettled
  /\ call' = [NoCall EXCEPT !.op = "searchSimilarChunks", !.stage = "rejected",
                            !.arg = <<k, threshold>>, !.error = SearchError]
  /\ UNCHANGED <<isInMemory, backendHas, created, ipc, reply>>
  /\ UNCHANGED <<coordVars, chunkVars>>

StoreNext ==
  \/ \E contents \in StoreTextLists : ReachesStoreWrite(contents)
  \/ \E id \in DocIds, ok \in BOOLEAN : EmbeddingsReturn(id, ok)
  \/ \E id \in DocIds, ok \in BOOLEAN : AddReturns(id, ok)
  \/ \E id \in DocIds : DeleteDocumentCalled(id)
  \/ \E ok \in BOOLEAN : DocumentChunksReturn(ok)
  \/ \E ok \in BOOLEAN : ChunksDeleted(ok)
  \/ \E ok \in BOOLEAN : GetAllDocumentIdsCalled(ok)
  \/ \E k \in MaxResultsInputs, threshold \in ThresholdInputs :
       SearchSimilarChunksCalled(k, threshold)
  \/ \E k \in MaxResultsInputs, threshold \in ThresholdInputs :
       SearchSimilarChunksFails(k, threshold)

StoreSpec == BatchInit /\ [][StoreNext]_vars

(***************************************************************************)
(* Claims about the indexing queue (Spec, LiveSpec)                        *)
(***************************************************************************)
NumProcessing(q) == NumWithStatus(q, "processing")
Terminal == {"completed", "failed"}

\* C1 as stated: at no instant do more than concurrentProcessing (the limit
\* configured at that instant) queue items hold status processing.
C1_NeverAboveCurrentLimit == NumProcessing(queue) <= concurrentProcessing

\* C1 amended: whenever the number of processing items rises, it rises to at
\* most the limit configured at that moment; it never rises otherwise, so it
\* never exceeds the limit in force when the batch was selected.
C1_BoundedAtSelection ==
  [][NumProcessing(queue') > NumProcessing(queue)
       => NumProcessing(queue') <= concurrentProcessing]_vars

\* C1: a batch of two was selected under the limit 2, after an earlier batch
C1_Witness ==
  /\ concurrentProcessing = 2
  /\ NumProcessing(queue) = 2
  /\ Len(queue) = 3

\* the status changes the state machine pending -> processing -> terminal
\* allows, with "absent" for an identifier that has no queue item; a
\* queueDocument call that starts the drain loop creates the item pending and
\* moves it to processing before it returns (absent -> processing)
AllowedStatusSteps ==
  { <<"absent", "pending">>, <<"absent", "processing">>, <<"pending", "processing">>,
    <<"processing", "completed">>, <<"processing", "failed">>,
    <<"pending", "absent">>, <<"completed", "absent">>, <<"failed", "absent">> }

\* C2: the status of every queue item only moves along pending -> processing
\* -> (completed | failed); an item that left the queue never comes back.
C2_StatusOnlyAdvances ==
  [][queue' # queue =>
       \A id \in DocIds :
         LET before == StatusOf(queue, id)
             after  == StatusOf(queue', id)
         IN  /\ after # before => <<before, after>> \in AllowedStatusSteps
             /\ (id <= issued /\ before = "absent") => after = "absent"]_vars

\* C2: a completed and a failed item stand in the queue
C2_Witness ==
  /\ NumWithStatus(queue, "completed") >= 1
  /\ NumWithStatus(queue, "failed") >= 1

\* C3: every queued document that is pending eventually is completed or
\* failed, or has been removed from the queue.
C3_EveryDocumentSettles ==
  \A id \in DocIds :
    (StatusOf(queue, id) = "pending") ~> (StatusOf(queue, id) \in Terminal \cup {"absent"})

\* C3: two documents are queued and both have settled, the drain loop has
\* ended, and the second was queued after the first (so while the loop that
\* the first call started was running, or after it had ended)
C3_Witness ==
  /\ Len(queue) = 2
  /\ \A i \in DOMAIN queue : queue[i].status \in Terminal
  /\ NumWithStatus(queue, "completed") >= 1
  /\ ~processing

\* C4: an item fails only in a step in which its own pipeline run threw; the
\* step records a non-empty error and an end timestamp and changes no other
\* item and no other run; and a drain loop that resumes while items are
\* pending selects some of them, whatever became of the batch before.
C4_FailureIsIsolated ==
  [][/\ \A id \in DocIds :
          (StatusOf(queue, id) = "processing" /\ StatusOf(queue', id) = "failed")
            => /\ ItemOf(queue', id).error \notin {"", Undefined}
               /\ ItemOf(queue', id).endTime # NoTime
               /\ runs[id].stage \in {"analyze", "init", "embed", "add"}
               /\ \A other \in DocIds \ {id} :
                    /\ runs'[other] = runs[other]
                    /\ other \in IdsOf(queue)
                         => /\ other \in IdsOf(queue')
                            /\ ItemOf(queue', other) = ItemOf(queue, other)
     /\ (loops' # loops /\ loops # {} /\ NumWithStatus(queue, "pending") > 0)
            => NumProcessing(queue') > 0]_vars

\* C4: one batch holds a failed item with its error and a completed item
C4_Witness ==
  \E batch \in loops : \E a, b \in batch :
    /\ StatusOf(queue, a) = "failed"
    /\ ItemOf(queue, a).error = AddChunksError
    /\ StatusOf(queue, b) = "completed"

\* C5: the chunks of every pipeline run, and every stored record, come from
\* the content that was supplied to queueDocument for that document.
C5_ChunksComeFromSuppliedContent ==
  /\ \A id \in DocIds :
       runs[id].stage # "idle"
         => \A i \in DOMAIN runs[id].chunks : runs[id].chunks[i].content = supplied[id]
  /\ \A r \in store : r.content = supplied[r.documentId]

\* C8: at most one drain loop is active; a queueDocument call made while a
\* loop is active starts no loop, selects no item and starts no pipeline run.
C8_SingleDrainLoop ==
  [][/\ Cardinality(loops') <= 1
     /\ (loops # {} /\ issued' # issued)
          => /\ loops' = loops
             /\ runs' = runs
             /\ NumProcessing(queue') = NumProcessing(queue)]_vars

\* C8: a document was queued while the drain loop is busy with another one
C8_Witness ==
  /\ Cardinality(loops) = 1
  /\ processing
  /\ NumProcessing(queue) >= 1
  /\ NumWithStatus(queue, "pending") >= 1
  /\ lastCall.op = "queueDocument"
  /\ lastCall.error = Undefined

\* C10: a queueDocument call (the step that draws an identifier) on a full
\* queue ends with the capacity error and changes nothing of the coordinator.
C10_FullQueueRejects ==
  [][(issued' # issued /\ Len(queue) >= maxQueueSize)
       => /\ lastCall'.op = "queueDocument"
          /\ lastCall'.error = QueueFullError
          /\ UNCHANGED <<queue, processing, loops, runs, concurrentProcessing,
                         maxQueueSize, collection, store>>]_vars

\* C10: a call was rejected while the queue is full and a drain loop is active
C10_Witness ==
  /\ lastCall.op = "queueDocument"
  /\ lastCall.error = QueueFullError
  /\ Len(queue) >= maxQueueSize
  /\ processing

(***************************************************************************)
(* Claims about chunkDocument (ChunkSpec)                                  *)
(***************************************************************************)
\* C6: in the character-split scan the window start strictly increases on
\* every pass, and once a window that reaches the end of the text has been
\* pushed the scan stops, so that chunkDocument returns.
C6_ScanAdvancesAndStops ==
  [][CScanStep =>
       /\ currentPosition' > currentPosition
       /\ (WindowEnd(scanText, currentPosition, chunkSize) = Len(scanText)
             => currentPosition' >= Len(scanText))]_vars

\* C7: every chunk chunkDocument returns is at most chunkSize characters long.
C7_ChunksWithinChunkSize ==
  cpc = "done" =>
    \A i \in DOMAIN documentChunks : Len(documentChunks[i].content) <= chunkSize

(***************************************************************************)
(* Claims about ChromaService.initialize (InitSpec)                        *)
(***************************************************************************)
\* C9: under concurrent initialize calls the collection is created at most
\* once, no caller fails because another caller created the collection first,
\* and every caller that returns finds the ready collection.
C9_ConcurrentInitializeIsSafe ==
  /\ created <= 1
  /\ \A c \in Callers :
       /\ ipc[c] = "failed" => reply[c] # "duplicate"
       /\ ipc[c] = "done" => collection = "ready"

(***************************************************************************)
(* Claims about queue management and document deletion (Spec)             *)
(***************************************************************************)
\* C11: removeFromQueue(id) returns true exactly when an item with that id
\* is queued and is not processing, and then removes that item only; in every
\* other case it returns false and leaves the queue as it was.  A processing
\* item stays queued, by any step, until it is completed or failed.
C11_RemoveOnlyNonProcessing ==
  [][\A id \in DocIds :
       /\ (lastCall'.op = "removeFromQueue" /\ RemoveFromQueue(id)) =>
            LET removable == id \in IdsOf(queue) /\ StatusOf(queue, id) # "processing"
            IN  /\ lastCall'.value = removable
                /\ queue' = IF removable
                              THEN SelectSeq(queue, LAMBDA it : it.documentId # id)
                              ELSE queue
       /\ StatusOf(queue, id) = "processing"
            => StatusOf(queue', id) \in {"processing", "completed", "failed"}]_vars

\* a removal has succeeded while another item, still processing, stayed queued
C11_Witness ==
  /\ lastCall.op = "removeFromQueue"
  /\ lastCall.value = TRUE
  /\ NumProcessing(queue) >= 1

\* C13: clearCompletedAndFailed, in any state, removes exactly the completed
\* and failed items; the pending and processing items stay, in the same
\* order and with the same fields.
C13_ClearKeepsUnfinishedItems ==
  [][ClearCompletedAndFailed =>
       queue' = SelectSeq(queue, LAMBDA it : it.status \in {"pending", "processing"})]_vars

\* a clear has run while a drain loop was active; it dropped a finished item
\* and left a processing and a pending item
C13_Witness ==
  /\ lastCall.op = "clearCompletedAndFailed"
  /\ processing
  /\ Len(queue) = 2
  /\ queue[1].status = "processing"
  /\ queue[2].status = "pending"
  /\ queue[1].documentId = 2

(***************************************************************************)
(* Claims about the enrichment and the store writes of a pipeline run     *)
(***************************************************************************)
\* C14: when a sub-extraction of analyzeDocument fails, by an unparsable
\* response or by a failed model call, the run goes on to the store write
\* and the document's queue item does not become failed.
C14_SubExtractionFailureAbsorbed ==
  [][\A id \in DocIds, subs \in SubResults :
       (/\ runs[id].stage = "analyze"
        /\ \E k \in SubExtractions : subs[k] # "ok"
        /\ AnalyzeReturns(id, AnalyzeDocument(subs)))
         => StatusOf(queue', id) # "failed"]_vars

\* C15: when a collection.add fails after earlier batches of the document
\* were stored, the document's queue item becomes failed and the store keeps
\* every record it held: no delete or rollback follows.
C15_NoRollbackOfStoredBatches ==
  [][\A id \in DocIds :
       (runs[id].stage = "add" /\ runs[id].next > 0 /\ AddReturns(id, FALSE))
         => /\ StatusOf(queue', id) = "failed"
            /\ store' = store
            /\ WriteBatch(runs[id].chunks, runs[id].embeddings, 0) \subseteq store']_vars

\* a document has failed on its second or third batch with a stored batch left
C15_Witness ==
  \E id \in DocIds :
    /\ StatusOf(queue, id) = "failed"
    /\ ItemOf(queue, id).error = AddChunksError
    /\ Cardinality({ r \in store : r.documentId = id }) >= WriteBatchSize

(***************************************************************************)
(* Claims about the vector store                                           *)
(***************************************************************************)
\* C12: when deleteDocument(d) returns successfully and the queue item of d is
\* not processing, the queue holds no item for d and the store holds no chunk
\* of d.
C12_DeleteLeavesNothingOfDocument ==
  [][(/\ call.op = "deleteDocument"
      /\ call.stage # "resolved"
      /\ call'.stage = "resolved"
      /\ StatusOf(queue, call.arg) # "processing")
       => /\ call.arg \notin IdsOf(queue')
          /\ RecordsOf(store', call.arg) = {}]_vars

\* C16: when deleteDocumentChunks(d) completes and nothing wrote records of d
\* between its read and its delete, the store holds no record of d, records
\* with empty text included, and getAllDocumentIds does not list d; when d had
\* no records the store is left as it was.
C16_DeleteRemovesEveryRecord ==
  [][(/\ call.op = "deleteDocument"
      /\ call.stage # "resolved"
      /\ call'.stage = "resolved"
      /\ call.stage = "delete" => call.records = RecordsOf(store, call.arg))
       => /\ RecordsOf(store', call.arg) = {}
          /\ call.arg \notin GetAllDocumentIds(store')
          /\ RecordsOf(store, call.arg) = {} => store' = store]_vars

C18_CharacterSplitIsLossless ==
  [][(CScanReturn /\ scanCaller = "structure")
       => LET shared(i) == IF i = 1 \/ windows[i - 1][2] <= windows[i][1]
                             THEN 0
                             ELSE windows[i - 1][2] - windows[i][1]
              fresh(i) == SubSeq(scanChunks[i], shared(i) + 1, Len(scanChunks[i]))
          IN  Flatten([i \in DOMAIN scanChunks |-> fresh(i)]) = scanText]_vars

\* C19: with chunkOverlap >= chunkSize the overlap counts as zero: every pass
\* of the scan starts the next window where the current one ends, as a run
\* with chunkOverlap = 0 does, so the scan ends with that run's chunks.
C19_OversizedOverlapCountsAsZero ==
  [][(CScanStep /\ chunkOverlap >= chunkSize)
       => currentPosition' = NextPosition(currentPosition,
                                          WindowEnd(scanText, currentPosition, chunkSize), 0)]_vars

\* C20: the chunks chunkDocument returns are numbered 0, 1, ..., N-1 in output
\* order, each carries totalChunks = N, the number of chunks returned, and the
\* document's id, and each identifier is the one generateChunkId gives for the
\* document id and the chunk's index, so that it is the same on every run and
\* differs between positions.
C20_ChunksNumberedAndIdentified ==
  cpc = "done" =>
    /\ Len(documentChunks) = Len(refinedChunks)
    /\ \A i \in DOMAIN documentChunks :
         /\ documentChunks[i].chunkIndex = i - 1
         /\ documentChunks[i].totalChunks = Len(documentChunks)
         /\ documentChunks[i].documentId = 1
         /\ documentChunks[i].id = GenerateChunkId(1, documentChunks[i].chunkIndex)
         /\ documentChunks[i].content = refinedChunks[i]
    /\ \A i, j \in DOMAIN documentChunks :
         i # j => documentChunks[i].id # documentChunks[j].id

\* chunkDocument has returned three or more chunks
C20_Witness ==
  /\ cpc = "done"
  /\ Len(documentChunks) >= 3
  /\ documentChunks[3].chunkIndex = 2

(***************************************************************************)
(* Claims about the enrichment of the chunks (EnrichSpec)                  *)
(***************************************************************************)
\* C21: every stored chunk of a completed document carries the summary, the
\* entities, the classification (as its category) and the confidence score
\* of the analysis of the document's first chunk.
C21_EveryChunkCarriesTheEnrichment ==
  \A id \in DocIds :
    StatusOf(queue, id) = "completed" =>
      \A r \in RecordsOf(store, id) :
        /\ r.summary = AnalysisResults.summary
        /\ r.entities = Present([i \in DOMAIN AnalysisResults.entities |->
                                   ChunkEntity(AnalysisResults.entities[i])])
        /\ r.category = Present(AnalysisResults.classification)
        /\ r.confidenceScore = Present(AnalysisResults.confidence)

(***************************************************************************)
(* Claims about the embeddings and the store writes (EmbedSpec)            *)
(***************************************************************************)
\* C22: generateEmbeddings returns one vector per text, in the order of the
\* texts, in whatever order the requests of a batch were answered, and every
\* collection.add stores, under each chunk's id, one record that holds that
\* chunk's text, that chunk's metadata and the vector of that chunk's text.
C22_RecordsHoldOwnTextAndEmbedding ==
  [][\A id \in DocIds :
       (runs[id].stage = "add" /\ AddReturns(id, TRUE))
         => /\ Len(runs[id].embeddings) = Len(runs[id].chunks)
            /\ \A i \in DOMAIN runs[id].chunks :
                 runs[id].embeddings[i] = Embedding(runs[id].chunks[i].content)
            /\ \A i \in DOMAIN runs[id].chunks :
                 (i > runs[id].next /\ i <= runs[id].next + WriteBatchSize)
                   => \E r \in store' :
                        /\ r.id = runs[id].chunks[i].id
                        /\ r.documentId = runs[id].chunks[i].documentId
                        /\ r.content = runs[id].chunks[i].content
                        /\ r.summary = runs[id].chunks[i].summary
                        /\ r.embedding = Embedding(runs[id].chunks[i].content)
                        /\ \A other \in store' : other.id = r.id => other = r]_vars

\* a document of 51 chunks is completed: six embedding batches and two write
\* batches, and the record of its last chunk is stored
C22_Witness ==
  \E id \in DocIds :
    /\ StatusOf(queue, id) = "completed"
    /\ \E r \in store :
         /\ r.id = GenerateChunkId(id, WriteBatchSize)
         /\ r.embedding = Embedding(<<"text", WriteBatchSize + 1>>)

(***************************************************************************)
(* Claims about the drain loop (Spec)                                      *)
(***************************************************************************)
\* C23: an item enters processing only when no item enqueued before it is
\* left pending: each selection takes the earliest-enqueued pending items.
C23_EarliestPendingSelectedFirst ==
  [][\A i, j \in DOMAIN queue' :
       (/\ i < j
        /\ queue'[j].status = "processing"
        /\ StatusOf(queue, queue'[j].documentId) \in {"pending", "absent"})
         => queue'[i].status # "pending"]_vars

\* a later iteration of the drain loop has selected the second document
\* while the third, enqueued after it, stays pending
C23_Witness ==
  /\ Len(queue) >= 2
  /\ \E i, j \in DOMAIN queue :
       /\ i < j
       /\ queue[i].documentId = 2
       /\ queue[i].status = "processing"
       /\ queue[j].status = "pending"
  /\ StatusOf(queue, 1) \in {"completed", "failed"}

\* C27: whenever the drain flag is down, no queue item is pending or
\* processing.
C27_FlagDownMeansNothingToDrain ==
  ~processing => \A i \in DOMAIN queue : queue[i].status \notin {"pending", "processing"}

\* the drain loop has handled two documents, found nothing pending and
\* lowered the flag
C27_Witness ==
  /\ ~processing
  /\ Len(queue) >= 2
  /\ \A i \in DOMAIN queue : queue[i].status \in {"completed", "failed"}

\* C28: items enter processing only in a step that starts with no item
\* processing, so the items processing at one time were selected by one
\* iteration of the drain loop, and a pending item waits for the whole
\* current batch even when fewer than concurrentProcessing items are left
\* processing.
C28_SelectionWaitsForWholeBatch ==
  [][(\E j \in DOMAIN queue' :
        /\ queue'[j].status = "processing"
        /\ StatusOf(queue, queue'[j].documentId) # "processing")
       => /\ NumProcessing(queue) = 0
          /\ \E batch \in loops' :
               \A j \in DOMAIN queue' :
                 queue'[j].status = "processing" => queue'[j].documentId \in batch]_vars

\* the limit is two or more, one item is processing, selected by a later
\* iteration of the drain loop, and a pending item waits for it
C28_Witness ==
  /\ concurrentProcessing >= 2
  /\ NumProcessing(queue) = 1
  /\ NumWithStatus(queue, "pending") >= 1
  /\ StatusOf(queue, 2) = "processing"
  /\ loops = {{2}}

(***************************************************************************)
(* Claims about structural splitting (ChunkSpec)                           *)
(***************************************************************************)
\* C24: when splitByStructure returns the segments of its header pass, the
\* segments in order hold all the non-whitespace text of the document, the
\* text before the first marker and the first marked section included.
C24_HeaderSegmentsCoverTheText ==
  [][(/\ CSplitByStructure
      /\ SplitByStructure(text, chunkSize, respectHeaders, respectParagraphs).tier = "headers")
       => SelectSeq(Flatten(segments'), LAMBDA c : c \notin Whitespace)
            = SelectSeq(text, LAMBDA c : c \notin Whitespace)]_vars

\* C25: when the header pass yields at most one segment, splitByStructure
\* returns the segments of the paragraph pass only (or hands the text to the
\* character split): nothing the header pass produced is in the output.
C25_AbandonedHeaderPassLeavesNothing ==
  [][(/\ CSplitByStructure
      /\ Len(text) > chunkSize
      /\ respectHeaders
      /\ Len(HeaderPass(text)) <= 1
      /\ SplitByStructure(text, chunkSize, respectHeaders, respectParagraphs).tier
           = "paragraphs")
       => segments' = ParagraphPass(text, <<>>, chunkSize)]_vars

\* C26: every segment the paragraph pass accumulates and splitByStructure
\* returns is at most chunkSize long, the blank-line separators between its
\* paragraphs counted, unless it is one paragraph that alone is longer.
C26_ParagraphSegmentsWithinChunkSize ==
  [][(/\ CSplitByStructure
      /\ SplitByStructure(text, chunkSize, respectHeaders, respectParagraphs).tier
           = "paragraphs")
       => \A i \in DOMAIN segments' :
            i > Len(segments') - Len(ParagraphPass(text, <<>>, chunkSize))
              => \/ Len(segments'[i]) <= chunkSize
                 \/ segments'[i] \in Range(SplitParagraphs(text, 0))]_vars

(***************************************************************************)
(* Claims about deletes and failures during a pipeline run                 *)
(***************************************************************************)
\* C29: once deleteDocument(d) has returned successfully no chunk of d is
\* written to the store, also when the pipeline run of d had not yet reached
\* its store write when deleteDocument was called.
C29_NothingStoredAfterDelete ==
  [][(call.op = "deleteDocument" /\ call.stage = "resolved")
       => RecordsOf(store', call.arg) \subseteq RecordsOf(store, call.arg)]_vars

\* C30: while the embeddings of a document are being computed the store
\* holds no chunk of it, and when one of its embedding requests fails the run
\* ends failed with no chunk of the document written.
C30_FailedEmbeddingWritesNothing ==
  [][\A id \in DocIds :
       runs[id].stage = "embedding"
         => /\ RecordsOf(store', id) = {}
            /\ runs'[id].stage \in {"embedding", "add", "idle"}
            /\ runs'[id].stage = "idle" => StatusOf(queue', id) = "failed"]_vars

\* the second document has failed with nothing of it stored, while the
\* chunks of the first document are in the store
C30_Witness ==
  /\ StatusOf(queue, 2) = "failed"
  /\ ItemOf(queue, 2).error = AddChunksError
  /\ RecordsOf(store, 2) = {}
  /\ RecordsOf(store, 1) # {}

====
